---- MODULE Spec2Model ----
(***************************************************************************)
(* Model of the language subsystem of the Abiotic Factor guide site:       *)
(* LanguageManager (src/js/language.js) and the storage helper it calls    *)
(* (utils.storage, src/unnamed/part_000).                                  *)
(*                                                                         *)
(* Strings are sequences of one-character strings, so that prefix tests,   *)
(* the two path regular expressions, lower-casing, JSON quoting and URL    *)
(* assembly/parsing are computed and not assumed.                          *)
(***************************************************************************)
EXTENDS Integers, Sequences, FiniteSets, TLC

VARIABLES
    pathname,         \* window.location.pathname
    search,           \* window.location.search
    hash,             \* window.location.hash
    item,             \* localStorage item 'preferred_language': <<>> or <<raw text>>
    storageOk,        \* FALSE: localStorage throws on every access
    navigator,        \* [language, languages] of the browser
    currentLanguage,  \* this.currentLanguage
    translations,     \* this.translations: code -> <<>> or <<dictionary>>
    calls,            \* the loadLanguage invocations of this page, in call order
    nav,              \* <<>> or <<href>>: navigation started by window.location.href = ...
    initPc,           \* where init() stands: "load" (awaiting loadLanguage), "timer"
                      \* (listeners set up, applyTranslations scheduled), "done"
    dom,              \* the document: tagged elements, title, meta tags, language toggle
    lastOp            \* the operation that ran last: [op, arg, raised]

vars == <<pathname, search, hash, item, storageOk, navigator, currentLanguage,
          translations, calls, nav, initPc, dom, lastOp>>

-----------------------------------------------------------------------------
(* Bounds of the model.                                                    *)

\* most path segments of an initial location
MaxSegs == 2
\* most loadLanguage invocations on one page (the one init() makes included)
MaxCalls == 2

-----------------------------------------------------------------------------
(* Strings.                                                                *)

Slash == "/"
Dash == "-"
Quote == "\""

en == <<"e", "n">>
fr == <<"f", "r">>
de == <<"d", "e">>
ru == <<"r", "u">>
es == <<"e", "s">>
esla == <<"e", "s", "-", "l", "a">>
ja == <<"j", "a">>
ko == <<"k", "o">>
ptbr == <<"p", "t", "-", "b", "r">>
zh == <<"z", "h">>
\* codes and segments that are not supported
xx == <<"x", "x">>
docs == <<"d", "o", "c", "s">>
frx == <<"f", "r", "x">>

\* String.prototype.startsWith
startsWith(s, p) == Len(p) <= Len(s) /\ SubSeq(s, 1, Len(p)) = p

\* index of the first c in s at or after position from; 0 if none
RECURSIVE indexOf(_, _, _)
indexOf(s, c, from) ==
    IF from > Len(s) THEN 0
    ELSE IF s[from] = c THEN from
    ELSE indexOf(s, c, from + 1)

\* String.prototype.split(sep)[0]
splitFirst(s, sep) ==
    LET i == indexOf(s, sep, 1) IN
    IF i = 0 THEN s ELSE SubSeq(s, 1, i - 1)

UpperToLower ==
    [c \in {"A", "B", "C", "E", "F", "I", "L", "M", "N", "P", "R", "S", "T", "X"} |->
        CASE c = "A" -> "a" [] c = "B" -> "b" [] c = "C" -> "c" [] c = "E" -> "e"
          [] c = "F" -> "f" [] c = "I" -> "i" [] c = "L" -> "l" [] c = "M" -> "m"
          [] c = "N" -> "n" [] c = "P" -> "p" [] c = "R" -> "r" [] c = "S" -> "s"
          [] c = "T" -> "t" [] c = "X" -> "x"]

\* String.prototype.toLowerCase
toLowerCase(s) ==
    [i \in 1..Len(s) |-> IF s[i] \in DOMAIN UpperToLower THEN UpperToLower[s[i]] ELSE s[i]]

-----------------------------------------------------------------------------
(* LanguageManager constants.                                              *)

supportedLanguages == <<en, fr, de, ru, es, esla, ja, ko, ptbr, zh>>
fallbackLanguage == en

\* Array.prototype.includes on supportedLanguages
includes(code) == \E i \in 1..Len(supportedLanguages) : supportedLanguages[i] = code

-----------------------------------------------------------------------------
(* utils.storage.                                                          *)

\* JSON.stringify of a string without characters that need escaping
JSONstringify(s) == <<Quote>> \o s \o <<Quote>>

\* JSON.parse of a stored text: <<value>> for a JSON string literal, <<>> when
\* the text is not JSON (JSON.parse throws)
JSONparse(t) ==
    IF /\ Len(t) >= 2
       /\ t[1] = Quote
       /\ t[Len(t)] = Quote
       /\ \A i \in 2..(Len(t) - 1) : t[i] # Quote
    THEN <<SubSeq(t, 2, Len(t) - 1)>>
    ELSE <<>>

\* utils.storage.get('preferred_language'): <<>> is the default value null
storageGet(ok, it) ==
    IF ~ok THEN <<>>
    ELSE IF it = <<>> \/ it[1] = <<>> THEN <<>>
    ELSE JSONparse(it[1])

\* utils.storage.set('preferred_language', value): the item afterwards
storageSet(ok, it, value) ==
    IF ok THEN <<JSONstringify(value)>> ELSE it

-----------------------------------------------------------------------------
(* Language detection.                                                     *)

\* path.match(/^\/([^\/]+)\/?/): <<first segment>>, or <<>> when there is no match
matchFirstSegment(path) ==
    IF Len(path) >= 2 /\ path[1] = Slash /\ path[2] # Slash
    THEN LET j == indexOf(path, Slash, 2) IN
         <<SubSeq(path, 2, IF j = 0 THEN Len(path) ELSE j - 1)>>
    ELSE <<>>

detectLanguageFromPath(path) ==
    IF path = <<Slash>> \/ path = <<>> THEN en
    ELSE LET langMatch == matchFirstSegment(path) IN
         IF langMatch # <<>> /\ includes(langMatch[1]) THEN langMatch[1]
         ELSE en

\* supportedLanguages.find(lang => langCode.startsWith(lang) ||
\*                                 lang.startsWith(langCode.split('-')[0]))
RECURSIVE findPartial(_, _)
findPartial(langCode, i) ==
    IF i > Len(supportedLanguages) THEN <<>>
    ELSE LET lang == supportedLanguages[i] IN
         IF startsWith(langCode, lang) \/ startsWith(lang, splitFirst(langCode, Dash))
         THEN <<lang>>
         ELSE findPartial(langCode, i + 1)

\* navigator.language || navigator.languages[0]
browserLanguage(n) == IF n.language # <<>> THEN n.language ELSE n.languages[1]

\* detectLanguage from the browser language on: lines 74-96
detectFromBrowser(n) ==
    LET langCode == toLowerCase(browserLanguage(n))
        partialMatch == findPartial(langCode, 1)
    IN  IF includes(langCode) THEN langCode
        ELSE IF partialMatch # <<>> THEN partialMatch[1]
        ELSE en

\* a plausible slip: the first path segment is trusted without validation
detectLanguage_trustPath(path, savedLang, n) ==
    LET m == matchFirstSegment(path) IN
    IF m # <<>> THEN m[1]
    ELSE IF savedLang # <<>> /\ includes(savedLang[1]) THEN savedLang[1]
    ELSE detectFromBrowser(n)

\* a plausible slip: the stored preference is consulted before the path
detectLanguage_storedFirst(path, savedLang, n) ==
    IF savedLang # <<>> /\ includes(savedLang[1]) THEN savedLang[1]
    ELSE detectLanguageFromPath(path)

\* the value detectLanguage() assigns to this.currentLanguage
detectLanguage(path, savedLang, n) ==
    LET pathLang == detectLanguageFromPath(path) IN
    IF pathLang # <<>> /\ includes(pathLang) THEN pathLang
    ELSE IF savedLang # <<>> /\ savedLang[1] # <<>> /\ includes(savedLang[1]) THEN savedLang[1]
    ELSE detectFromBrowser(n)

-----------------------------------------------------------------------------
(* Switching: changeLanguage and redirectToLanguage.                       *)

\* currentPath.replace(/^\/[^\/]+(\/.*)$/, '$1'): the path from its second
\* slash on when a non-empty first segment is followed by a slash; otherwise
\* the path as it is (no match, nothing replaced)
replaceFirstSegment(path) ==
    LET j == indexOf(path, Slash, 2) IN
    IF Len(path) >= 2 /\ path[1] = Slash /\ path[2] # Slash /\ j # 0
    THEN SubSeq(path, j, Len(path))
    ELSE path

\* a plausible slip: the query string is dropped from the target
redirectToLanguage_noSearch(langCode, currentPath, s, h) ==
    LET r == replaceFirstSegment(currentPath)
        cleanPath == IF r = <<>> THEN <<Slash>> ELSE r
    IN  (IF langCode = en THEN cleanPath ELSE <<Slash>> \o langCode \o cleanPath) \o h

\* the URL redirectToLanguage assigns to window.location.href
redirectToLanguage(langCode, currentPath, s, h) ==
    LET r == replaceFirstSegment(currentPath)
        cleanPath == IF r = <<>> THEN <<Slash>> ELSE r
        newPath == IF langCode = en
                   THEN cleanPath
                   ELSE <<Slash>> \o langCode \o cleanPath
    IN  newPath \o s \o h

\* a plausible slip: the guard "langCode === this.currentLanguage" is missing
changeLanguage_noCurrentGuard(langCode, cur, ok, it, path, s, h, nv) ==
    IF ~includes(langCode) THEN [item |-> it, nav |-> nv, raised |-> FALSE]
    ELSE [item |-> storageSet(ok, it, langCode),
          nav |-> <<redirectToLanguage(langCode, path, s, h)>>, raised |-> FALSE]

\* a plausible slip: the storage write is not wrapped, so that its failure
\* ends changeLanguage before the redirect
changeLanguage_setThrows(langCode, cur, ok, it, path, s, h, nv) ==
    IF ~includes(langCode) THEN [item |-> it, nav |-> nv, raised |-> FALSE]
    ELSE IF langCode = cur THEN [item |-> it, nav |-> nv, raised |-> FALSE]
    ELSE IF ~ok THEN [item |-> it, nav |-> nv, raised |-> TRUE]
    ELSE [item |-> storageSet(ok, it, langCode),
          nav |-> <<redirectToLanguage(langCode, path, s, h)>>, raised |-> FALSE]

\* changeLanguage(langCode): the stored item and the pending navigation
\* afterwards, and whether the call raised
changeLanguage(langCode, cur, ok, it, path, s, h, nv) ==
    IF ~includes(langCode) THEN [item |-> it, nav |-> nv, raised |-> FALSE]
    ELSE IF langCode = cur THEN [item |-> it, nav |-> nv, raised |-> FALSE]
    ELSE [item |-> storageSet(ok, it, langCode),
          nav |-> <<redirectToLanguage(langCode, path, s, h)>>, raised |-> FALSE]

\* The browser's reading of the assigned (path-absolute) URL: the fragment is
\* what follows the first '#', the query what follows the first '?' before
\* it; location.search and location.hash are empty for an empty query/fragment
parseHref(href) ==
    LET ih == indexOf(href, "#", 1)
        noFrag == IF ih = 0 THEN href ELSE SubSeq(href, 1, ih - 1)
        frag == IF ih = 0 THEN <<>> ELSE SubSeq(href, ih, Len(href))
        iq == indexOf(noFrag, "?", 1)
        qry == IF iq = 0 THEN <<>> ELSE SubSeq(noFrag, iq, Len(noFrag))
    IN  [pathname |-> IF iq = 0 THEN noFrag ELSE SubSeq(noFrag, 1, iq - 1),
         search |-> IF Len(qry) <= 1 THEN <<>> ELSE qry,
         hash |-> IF Len(frag) <= 1 THEN <<>> ELSE frag]

-----------------------------------------------------------------------------
(* Loading: loadLanguage.                                                  *)

\* the keys this.translations is read and written at: any string may be one
Codes == {supportedLanguages[i] : i \in 1..Len(supportedLanguages)} \cup {xx, docs, frx}

\* how a fetch of /languages/<code>.json ends: a success, a non-success
\* status, a network error, a body that is not JSON
Outcomes == {"ok", "http", "network", "parse"}

\* The dictionary the server holds for a code (a flat object of strings).  A
\* string value is the sequence of its pieces, a placeholder {{p}} being one
\* piece, so the empty string is <<>>.
Body(code) ==
    IF code = en
    THEN [k \in {"hello", "page_title", "search_hint", "greet"} |->
            CASE k = "hello" -> <<"Hello">>
              [] k = "page_title" -> <<"Guide">>
              [] k = "search_hint" -> <<"Search">>
              [] OTHER -> <<"Hello ", "{{name}}">>]
    ELSE IF code = fr
    THEN [k \in {"hello", "page_description", "search_hint", "nav_label", "greet"} |->
            CASE k = "hello" -> <<"Bonjour">>
              [] k = "page_description" -> <<"Le guide">>
              [] k = "greet" -> <<"{{name}}", ", bonjour ", "{{name}}">>
              [] OTHER -> <<>>]
    ELSE [k \in {} |-> <<>>]

\* the object literal {} of line 142
EmptyDict == [id |-> <<0, 0>>, map |-> [k \in {} |-> <<>>]]

NoTranslations == [c \in Codes |-> <<>>]

\* An invocation of loadLanguage: the code asked for, where it stands
\* ("fetch": suspended on a fetch of cur; "done": returned result), the fetches
\* it has issued so far (n) and how each ended (fetched), the codes it found
\* cached (hits), and the invocations that had returned when it started (after)
newCall(id, code, done) ==
    [id |-> id, code |-> code, st |-> "new", cur |-> <<>>, n |-> 0, fetched |-> <<>>,
     hits |-> <<>>, result |-> <<>>, after |-> done]

\* a plausible slip: the cache is not consulted
enterLoad_noCache(r, langCode, tr) ==
    [r EXCEPT !.st = "fetch", !.cur = langCode, !.n = @ + 1]

\* loadLanguage(langCode) up to its first suspension, for the invocation r:
\* a cache hit returns at once, a miss issues a fetch
enterLoad(r, langCode, tr) ==
    IF tr[langCode] # <<>>
    THEN [r EXCEPT !.st = "done", !.result = tr[langCode], !.hits = Append(@, langCode)]
    ELSE [r EXCEPT !.st = "fetch", !.cur = langCode, !.n = @ + 1]

\* a plausible slip: the fallback's own failure is thrown to the caller
afterFailure_rethrow(r, tr) ==
    IF r.cur # fallbackLanguage
    THEN enterLoad(r, fallbackLanguage, tr)
    ELSE [r EXCEPT !.st = "rejected"]

\* a plausible slip: the retry is not limited to codes other than the fallback
afterFailure_alwaysRetry(r, tr) == enterLoad(r, fallbackLanguage, tr)

\* the catch block of loadLanguage, lines 134-143
afterFailure(r, tr) ==
    IF r.cur # fallbackLanguage
    THEN enterLoad(r, fallbackLanguage, tr)
    ELSE [r EXCEPT !.st = "done", !.result = <<EmptyDict>>]

\* the object response.json() yields for the fetch invocation r waits on: a
\* new object for every fetch
parsed(r) == [id |-> <<r.id, r.n>>, map |-> Body(r.cur)]

\* the invocation once its fetch has ended with outcome o; tr is the cache
\* at that moment
settleCall(r, o, tr) ==
    LET r1 == [r EXCEPT !.fetched = Append(@, [code |-> r.cur, ok |-> (o = "ok")])] IN
    IF o = "ok"
    THEN [r1 EXCEPT !.st = "done", !.result = <<parsed(r)>>]
    ELSE afterFailure(r1, tr)

\* a plausible slip: a successful fetch is returned but not cached
cacheAfter_noWrite(r, o, tr) == tr

\* a plausible slip: the dictionary is cached under the code the invocation
\* was called with, the fallback's dictionary too
cacheAfter_underRequested(r, o, tr) ==
    IF o = "ok" THEN [tr EXCEPT ![r.code] = <<parsed(r)>>] ELSE tr

\* this.translations once the fetch of invocation r has ended with outcome o
cacheAfter(r, o, tr) ==
    IF o = "ok" THEN [tr EXCEPT ![r.cur] = <<parsed(r)>>] ELSE tr

DoneCalls(cs) == {i \in 1..Len(cs) : cs[i].st \in {"done", "rejected"}}

-----------------------------------------------------------------------------
(* The document and applyTranslations.                                     *)

\* the elements of the page that carry data-translate
Elements == {"heading", "submit", "field", "menu"}

Page ==
    [e \in Elements |->
        CASE e = "heading" -> [tagName |-> "H1", type |-> "", aria |-> FALSE, key |-> "hello"]
          [] e = "submit" -> [tagName |-> "INPUT", type |-> "submit", aria |-> FALSE,
                              key |-> "page_title"]
          [] e = "field" -> [tagName |-> "INPUT", type |-> "text", aria |-> FALSE,
                             key |-> "search_hint"]
          [] OTHER -> [tagName |-> "NAV", type |-> "", aria |-> TRUE, key |-> "nav_label"]]

\* what the served HTML holds before any script writes to it
Html == <<"(html)">>

\* the parts of a page the language code looks up; a page may lack any of
\* them ("tagged": the elements that carry data-translate)
Parts == {"languageToggle", "languageModal", "closeLanguageModal", "languageButtons",
          "metaDescription", "ogTitle", "ogDescription", "tagged"}

\* a page that has every part, its modal holding two focusable elements
FullPage == [has |-> Parts, focusable |-> 2]

\* The document as served, for a page that has the parts page.has and
\* page.focusable focusable elements in its modal: the text of the tagged
\* elements and of the head, the toggle's text and the active language
\* button, the modal (display, the fade-in class, the focused element: 0 is
\* none of the modal's) and the targets that carry a listener of the manager.
DomOf(page) ==
    [page |-> page,
     els |-> [e \in (IF "tagged" \in page.has THEN Elements ELSE {}) |->
                [textContent |-> Html, value |-> Html, placeholder |-> Html,
                 ariaLabel |-> Html]],
     title |-> Html, metaDesc |-> Html, ogTitle |-> Html, ogDesc |-> Html,
     toggle |-> <<>>, active |-> <<>>,
     display |-> "none", fadeIn |-> FALSE, focus |-> 0, listeners |-> {}]

InitialDom == DomOf(FullPage)

\* (this.translations[code] || {})[key], as a truth-tested value: <<>> when
\* the lookup is undefined or an empty string
lookup(tr, code, key) ==
    IF tr[code] = <<>> THEN <<>>
    ELSE LET m == tr[code][1].map IN
         IF key \in DOMAIN m /\ m[key] # <<>> THEN <<m[key]>> ELSE <<>>

\* currentTranslations[key] || fallbackTranslations[key]
lookupBoth(tr, cur, key) ==
    IF lookup(tr, cur, key) # <<>> THEN lookup(tr, cur, key)
    ELSE lookup(tr, fallbackLanguage, key)

\* a plausible slip: ?? in place of ||, so that a dictionary's empty string
\* is taken as its translation
translationOf_nullish(tr, cur, key) ==
    IF tr[cur] # <<>> /\ key \in DOMAIN tr[cur][1].map THEN tr[cur][1].map[key]
    ELSE IF tr[fallbackLanguage] # <<>> /\ key \in DOMAIN tr[fallbackLanguage][1].map
    THEN tr[fallbackLanguage][1].map[key]
    ELSE <<key>>

\* currentTranslations[key] || fallbackTranslations[key] || key
translationOf(tr, cur, key) ==
    IF lookupBoth(tr, cur, key) # <<>> THEN lookupBoth(tr, cur, key)[1] ELSE <<key>>

\* a plausible slip: the text is added to what the element holds
writeElement_append(el, desc, translation) ==
    IF desc.tagName = "INPUT" \/ desc.tagName = "TEXTAREA"
    THEN IF desc.type = "submit" \/ desc.type = "button"
         THEN [el EXCEPT !.value = translation]
         ELSE [el EXCEPT !.placeholder = translation]
    ELSE IF desc.aria
         THEN [el EXCEPT !.ariaLabel = translation]
         ELSE [el EXCEPT !.textContent = @ \o translation]

\* the element after lines 196-207 have written translation to it
writeElement(el, desc, translation) ==
    IF desc.tagName = "INPUT" \/ desc.tagName = "TEXTAREA"
    THEN IF desc.type = "submit" \/ desc.type = "button"
         THEN [el EXCEPT !.value = translation]
         ELSE [el EXCEPT !.placeholder = translation]
    ELSE IF desc.aria
         THEN [el EXCEPT !.ariaLabel = translation]
         ELSE [el EXCEPT !.textContent = translation]

\* the document after updateMetaTags()
updateMetaTags(d, tr, cur) ==
    LET title == lookupBoth(tr, cur, "page_title")
        description == lookupBoth(tr, cur, "page_description")
    IN  [d EXCEPT !.title = IF title # <<>> THEN title[1] ELSE @,
                  !.metaDesc = IF description # <<>> /\ "metaDescription" \in d.page.has
                               THEN description[1] ELSE @,
                  !.ogTitle = IF "ogTitle" \in d.page.has /\ title # <<>>
                              THEN title[1] ELSE @,
                  !.ogDesc = IF "ogDescription" \in d.page.has /\ description # <<>>
                             THEN description[1] ELSE @]

\* the document after applyTranslations()
applyTranslations(d, tr, cur) ==
    updateMetaTags(
        [d EXCEPT !.els = [e \in DOMAIN d.els |->
                             writeElement(d.els[e], Page[e],
                                          translationOf(tr, cur, Page[e].key))]],
        tr, cur)

\* the document after updateLanguageUI(): the toggle shows the current
\* language's name and the button of the current language is the active one
updateLanguageUI(d, cur) ==
    [d EXCEPT !.toggle = IF "languageToggle" \in d.page.has THEN <<cur>> ELSE @,
              !.active = IF "languageButtons" \in d.page.has THEN <<cur>> ELSE @]

\* the document after setupEventListeners(): a listener on each target the
\* page has, and the keydown listener on the document
setupEventListeners(d) ==
    [d EXCEPT !.listeners =
        ({"languageToggle", "closeLanguageModal", "languageModal", "languageButtons"}
            \cap d.page.has) \cup {"document"}]

\* utils.a11y.trapFocus(modal): the first focusable element of the modal is
\* focused; focusableElements[0] is undefined when the modal has none, and
\* the call of its focus method raises a TypeError
trapFocus(d) ==
    IF d.page.focusable = 0
    THEN [dom |-> d, raised |-> TRUE]
    ELSE [dom |-> [d EXCEPT !.focus = 1], raised |-> FALSE]

\* showLanguageModal(): the document after it, and whether it raised.  The
\* class fade-in is added by a timer of delay 0 set before trapFocus runs.
showLanguageModal(d) ==
    IF "languageModal" \in d.page.has
    THEN trapFocus([d EXCEPT !.display = "flex", !.fadeIn = TRUE])
    ELSE [dom |-> d, raised |-> FALSE]

\* the document after hideLanguageModal()
hideLanguageModal(d) ==
    IF "languageModal" \in d.page.has
    THEN [d EXCEPT !.display = "none", !.fadeIn = FALSE]
    ELSE d

\* `{{${param}}}`
placeholder(param) == "{{" \o param \o "}}"

\* String.prototype.replace(pattern, replacement) with a string pattern: the
\* first occurrence of pattern is replaced, and only that one
replace(translation, pattern, replacement) ==
    LET i == indexOf(translation, pattern, 1) IN
    IF i = 0 THEN translation
    ELSE SubSeq(translation, 1, i - 1) \o replacement
         \o SubSeq(translation, i + 1, Len(translation))

\* the forEach of t over Object.keys(params), params being the sequence of
\* the object's [name, value] properties in their order
RECURSIVE replaceParams(_, _)
replaceParams(translation, params) ==
    IF params = <<>> THEN translation
    ELSE replaceParams(replace(translation, placeholder(Head(params).name),
                               Head(params).value),
                       Tail(params))

\* t(key, params), named tCall here since t is a bound variable elsewhere
tCall(tr, cur, key, params) == replaceParams(translationOf(tr, cur, key), params)

\* The click listener of a language button whose data-lang is langCode (<<>>:
\* none), lines 277-283: the stored item, the pending navigation and the
\* document afterwards.  Nothing runs when no listener is registered.
clickLanguageButton(langCode, d, cur, ok, it, path, s, h, nv) ==
    IF "languageButtons" \in d.listeners /\ langCode # <<>>
    THEN LET e == changeLanguage(langCode, cur, ok, it, path, s, h, nv) IN
         [item |-> e.item, nav |-> e.nav, dom |-> hideLanguageModal(d)]
    ELSE [item |-> it, nav |-> nv, dom |-> d]

\* the click listener of the toggle (lines 251-253) and the Alt+L branch of
\* the keydown listener of the document (lines 288-292), on the target
\* named: showLanguageModal() when the listener is registered
openFrom(target, d) ==
    IF target \in d.listeners THEN showLanguageModal(d) ELSE [dom |-> d, raised |-> FALSE]

-----------------------------------------------------------------------------
(* Page construction: new LanguageManager() up to the first suspension of  *)
(* init(): detectLanguage(), then loadLanguage(currentLanguage) on an      *)
(* empty cache.                                                            *)

constructedLanguage(path, ok, it, n) == detectLanguage(path, storageGet(ok, it), n)

\* a plausible slip: init() sets up the listeners before it awaits the load
constructedDom_listenersFirst(page) == setupEventListeners(DomOf(page))

\* the document when init() suspends: nothing of lines 47-56 has run
constructedDom(page) == DomOf(page)

constructedCalls(cur) == <<enterLoad(newCall(1, cur, {}), cur, NoTranslations)>>

\* a plausible slip: init() goes on once the first fetch of the invocation it
\* awaits has ended, a fallback retry still pending
initAfter_firstFetch(i, r, pc) == IF i = 1 THEN "timer" ELSE pc

\* Where init() stands once invocation i of loadLanguage stands as r: the
\* await of line 45 ends when invocation 1 has returned, and init() then
\* sets the timer of applyTranslations ("timer"); pc is where it stood.
initAfter(i, r, pc) ==
    IF i = 1 /\ r.st = "done" THEN "timer"
    ELSE IF i = 1 /\ r.st = "rejected" THEN "failed"
    ELSE pc

-----------------------------------------------------------------------------
(* The environments a page starts in.                                      *)

Segs == {en, fr, docs, frx}

RECURSIVE PathsOf(_)
PathsOf(n) ==
    IF n = 0 THEN {<<>>}
    ELSE PathsOf(n - 1) \cup
         {p \o <<Slash>> \o sg : p \in {q \in PathsOf(n - 1) : Len(q) > 0 \/ n = 1}, sg \in Segs}

\* "/" and every path of 1..MaxSegs segments, with and without a trailing slash
Paths ==
    {<<Slash>>} \cup
    UNION {{p, p \o <<Slash>>} : p \in PathsOf(MaxSegs) \ {<<>>}}

Searches == {<<>>, <<"?", "q">>}
Hashes == {<<>>, <<"#", "h">>}
Items == {<<>>, <<JSONstringify(fr)>>, <<JSONstringify(de)>>, <<JSONstringify(xx)>>, <<fr>>}
Tags == {<<"f", "r", "-", "C", "A">>, <<"p", "t">>, <<"i", "t">>}
Navigators == {[language |-> t, languages |-> <<t>>] : t \in Tags}

\* the codes changeLanguage is called with
Targets == {en, fr, de, xx}
\* the codes loadLanguage is called with from outside init()
LoadCodes == {en, fr, xx}
\* the pages: any of the parts may be missing, and the modal may hold no
\* focusable element
Pages == {[has |-> h, focusable |-> f] : h \in SUBSET Parts, f \in {0, 2}}
\* the data-lang of the language buttons (<<>>: a button without one)
ButtonLangs == {<<>>, en, fr, de, xx}
\* the pages of the controls: complete, or lacking the toggle or the buttons
ControlPages ==
    {[has |-> h, focusable |-> 2] :
        h \in {Parts, Parts \ {"languageToggle"}, Parts \ {"languageButtons"}}}
\* the keys and the params t is called with
Keys == {"greet", "hello", "farewell"}
Params == {<<>>,
           <<[name |-> "name", value |-> <<"Bob">>]>>,
           <<[name |-> "name", value |-> <<"Bob">>], [name |-> "title", value |-> <<"Dr">>]>>}

InitPage(P, S, H, I, N, O, G) ==
    /\ pathname \in P
    /\ search \in S
    /\ hash \in H
    /\ item \in I
    /\ navigator \in N
    /\ storageOk \in O
    /\ currentLanguage = constructedLanguage(pathname, storageOk, item, navigator)
    /\ translations = NoTranslations
    /\ calls = constructedCalls(currentLanguage)
    /\ nav = <<>>
    /\ initPc = "load"
    /\ dom \in {constructedDom(g) : g \in G}
    /\ lastOp = [op |-> "construct", arg |-> <<>>, raised |-> FALSE]

InitWith(P, S, H, I, N, O) == InitPage(P, S, H, I, N, O, {FullPage})

-----------------------------------------------------------------------------
(* Actions.                                                                *)

\* detectLanguage() called again on the running page
DetectLanguage ==
    /\ currentLanguage' = detectLanguage(pathname, storageGet(storageOk, item), navigator)
    /\ lastOp' = [op |-> "detectLanguage", arg |-> <<>>, raised |-> FALSE]
    /\ UNCHANGED <<pathname, search, hash, item, storageOk, navigator, translations,
                   calls, nav, initPc, dom>>

\* changeLanguage(langCode)
ChangeLanguage(langCode) ==
    LET e == changeLanguage(langCode, currentLanguage, storageOk, item,
                            pathname, search, hash, nav)
    IN  /\ item' = e.item
        /\ nav' = e.nav
        /\ lastOp' = [op |-> "changeLanguage", arg |-> langCode, raised |-> e.raised]
        /\ UNCHANGED <<pathname, search, hash, storageOk, navigator, currentLanguage,
                       translations, calls, initPc, dom>>

\* the navigation completes: the page is replaced and a new LanguageManager
\* is constructed at the new location
PageLoad ==
    /\ nav # <<>>
    /\ LET u == parseHref(nav[1]) IN
        /\ pathname' = u.pathname
        /\ search' = u.search
        /\ hash' = u.hash
        /\ currentLanguage' = constructedLanguage(u.pathname, storageOk, item, navigator)
    /\ translations' = NoTranslations
    /\ calls' = constructedCalls(currentLanguage')
    /\ nav' = <<>>
    /\ initPc' = "load"
    /\ dom' = constructedDom(dom.page)
    /\ lastOp' = [op |-> "construct", arg |-> <<>>, raised |-> FALSE]
    /\ UNCHANGED <<item, storageOk, navigator>>

\* loadLanguage(langCode) called from outside init()
LoadLanguage(langCode) ==
    /\ Len(calls) < MaxCalls
    /\ calls' = Append(calls, enterLoad(newCall(Len(calls) + 1, langCode, DoneCalls(calls)),
                                        langCode, translations))
    /\ lastOp' = [op |-> "loadLanguage", arg |-> <<>>, raised |-> FALSE]
    /\ UNCHANGED <<pathname, search, hash, item, storageOk, navigator, currentLanguage,
                   translations, nav, initPc, dom>>

\* The fetch of invocation i ends with outcome o and loadLanguage resumes.
\* When that makes the invocation init() awaits (the first) return, init()
\* resumes in the same turn: it schedules applyTranslations, sets up the
\* listeners and runs updateLanguageUI.
FetchSettles(i, o) ==
    /\ i \in 1..Len(calls)
    /\ calls[i].st = "fetch"
    /\ calls' = [calls EXCEPT ![i] = settleCall(calls[i], o, translations)]
    /\ translations' = cacheAfter(calls[i], o, translations)
    /\ initPc' = initAfter(i, calls'[i], initPc)
    /\ dom' = IF i = 1 /\ initPc' = "timer"
              THEN updateLanguageUI(setupEventListeners(dom), currentLanguage)
              ELSE dom
    /\ lastOp' = [op |-> "fetchSettles", arg |-> <<o>>, raised |-> FALSE]
    /\ UNCHANGED <<pathname, search, hash, item, storageOk, navigator, currentLanguage, nav>>

\* the timer init() set (100 ms) fires: applyTranslations()
TimerFires ==
    /\ initPc = "timer"
    /\ initPc' = "done"
    /\ dom' = applyTranslations(dom, translations, currentLanguage)
    /\ lastOp' = [op |-> "applyTranslations", arg |-> <<"timer">>, raised |-> FALSE]
    /\ UNCHANGED <<pathname, search, hash, item, storageOk, navigator, currentLanguage,
                   translations, calls, nav>>

\* applyTranslations() called on the running page; the record of the call
\* says whether the operation before it was applyTranslations too
ApplyTranslations ==
    /\ dom' = applyTranslations(dom, translations, currentLanguage)
    /\ lastOp' = [op |-> "applyTranslations",
                  arg |-> IF lastOp.op = "applyTranslations" THEN <<"again">> ELSE <<"call">>,
                  raised |-> FALSE]
    /\ UNCHANGED <<pathname, search, hash, item, storageOk, navigator, currentLanguage,
                   translations, calls, nav, initPc>>

\* showLanguageModal() runs: the toggle is clicked, Alt+L is pressed, or the
\* method is called
ShowLanguageModal ==
    LET e == showLanguageModal(dom) IN
    /\ dom' = e.dom
    /\ lastOp' = [op |-> "showLanguageModal", arg |-> <<>>, raised |-> e.raised]
    /\ UNCHANGED <<pathname, search, hash, item, storageOk, navigator, currentLanguage,
                   translations, calls, nav, initPc>>

\* hideLanguageModal() runs: the close button or the backdrop is clicked,
\* Escape is pressed, or the method is called
HideLanguageModal ==
    /\ dom' = hideLanguageModal(dom)
    /\ lastOp' = [op |-> "hideLanguageModal", arg |-> <<>>, raised |-> FALSE]
    /\ UNCHANGED <<pathname, search, hash, item, storageOk, navigator, currentLanguage,
                   translations, calls, nav, initPc>>

\* the user clicks a language button whose data-lang is langCode
ClickLanguageButton(langCode) ==
    /\ "languageButtons" \in dom.page.has
    /\ LET e == clickLanguageButton(langCode, dom, currentLanguage, storageOk, item,
                                    pathname, search, hash, nav)
       IN  /\ item' = e.item
           /\ nav' = e.nav
           /\ dom' = e.dom
    /\ lastOp' = [op |-> "click", arg |-> langCode, raised |-> FALSE]
    /\ UNCHANGED <<pathname, search, hash, storageOk, navigator, currentLanguage,
                   translations, calls, initPc>>

\* the user clicks the toggle ("languageToggle") or presses Alt+L ("document")
OpenControl(target) ==
    /\ target = "document" \/ target \in dom.page.has
    /\ LET e == openFrom(target, dom) IN
        /\ dom' = e.dom
        /\ lastOp' = [op |-> "open", arg |-> <<target>>, raised |-> e.raised]
    /\ UNCHANGED <<pathname, search, hash, item, storageOk, navigator, currentLanguage,
                   translations, calls, nav, initPc>>

\* t(key, params) called on the running page; the record of the call holds
\* what it returned
T(key, params) ==
    /\ lastOp' = [op |-> "t",
                  arg |-> [key |-> key, params |-> params,
                           result |-> tCall(translations, currentLanguage, key, params)],
                  raised |-> FALSE]
    /\ UNCHANGED <<pathname, search, hash, item, storageOk, navigator, currentLanguage,
                   translations, calls, nav, initPc, dom>>

-----------------------------------------------------------------------------
(* Specifications.                                                         *)

\* detection, switching and loading together, on a few start locations
Init ==
    InitWith({<<Slash>>, <<Slash>> \o docs},
             {<<"?", "q">>}, {<<"#", "h">>},
             {<<>>, <<JSONstringify(xx)>>},
             {n \in Navigators : n.language # <<"p", "t">>},
             {TRUE})

Next ==
    \/ DetectLanguage
    \/ \E t \in Targets \ {de} : ChangeLanguage(t)
    \/ PageLoad
    \/ \E c \in LoadCodes \ {xx} : LoadLanguage(c)
    \/ \E i \in 1..MaxCalls, o \in Outcomes : FetchSettles(i, o)
    \/ TimerFires

Spec == Init /\ [][Next]_vars

\* detection and switching on every start location of the bounds
InitNav == InitWith(Paths, Searches, Hashes, Items, Navigators, BOOLEAN)

NextNav ==
    \/ DetectLanguage
    \/ \E t \in Targets : ChangeLanguage(t)
    \/ PageLoad

SpecNav == InitNav /\ [][NextNav]_vars

\* loading alone, on a page whose language is the fallback and on one whose
\* language is not
InitLoad ==
    InitWith({<<Slash>> \o docs, <<Slash>> \o fr \o <<Slash>> \o docs},
             {<<>>}, {<<>>}, {<<>>},
             {n \in Navigators : n.language = <<"i", "t">>}, {TRUE})

NextLoad ==
    \/ \E c \in LoadCodes : LoadLanguage(c)
    \/ \E i \in 1..MaxCalls, o \in Outcomes : FetchSettles(i, o)
    \/ TimerFires

SpecLoad == InitLoad /\ [][NextLoad]_vars

\* the texts: loading, and applyTranslations and t called at any moment
NextText ==
    \/ \E c \in LoadCodes \ {xx} : LoadLanguage(c)
    \/ \E i \in 1..MaxCalls, o \in Outcomes : FetchSettles(i, o)
    \/ TimerFires
    \/ ApplyTranslations
    \/ \E k \in Keys, ps \in Params : T(k, ps)

SpecText == InitLoad /\ [][NextText]_vars

\* the document: init(), the modal and applyTranslations on every page
InitDom ==
    InitPage({<<Slash>> \o fr \o <<Slash>> \o docs}, {<<>>}, {<<>>}, {<<>>},
             {n \in Navigators : n.language = <<"i", "t">>}, {TRUE}, Pages)

NextDom ==
    \/ \E i \in 1..MaxCalls, o \in {"ok", "http"} : FetchSettles(i, o)
    \/ TimerFires
    \/ ApplyTranslations
    \/ ShowLanguageModal
    \/ HideLanguageModal

SpecDom == InitDom /\ [][NextDom]_vars

\* the controls: init(), clicks and Alt+L at any moment, and the navigation
InitControls ==
    InitPage({<<Slash>> \o docs, <<Slash>> \o fr \o <<Slash>> \o docs},
             {<<>>}, {<<>>}, {<<>>},
             {n \in Navigators : n.language = <<"i", "t">>}, BOOLEAN, ControlPages)

NextControls ==
    \/ \E i \in 1..MaxCalls, o \in Outcomes : FetchSettles(i, o)
    \/ TimerFires
    \/ \E c \in ButtonLangs : ClickLanguageButton(c)
    \/ \E g \in {"languageToggle", "document"} : OpenControl(g)
    \/ PageLoad

SpecControls == InitControls /\ [][NextControls]_vars

-----------------------------------------------------------------------------
(* Vocabulary of the properties.                                           *)

SupportedSet == {supportedLanguages[i] : i \in 1..Len(supportedLanguages)}

\* the first segment of path is exactly code: /code, /code/ or /code/rest
FirstSegIs(path, code) ==
    \/ path = <<Slash>> \o code
    \/ startsWith(path, <<Slash>> \o code \o <<Slash>>)

HasSupportedFirstSeg(path) == \E c \in SupportedSet : FirstSegIs(path, c)

IsRoot(path) == path = <<Slash>> \/ path = <<>>

\* what follows the first segment of a path that has one
AfterFirstSeg(path) ==
    LET j == indexOf(path, Slash, 2) IN
    IF j = 0 THEN <<>> ELSE SubSeq(path, j, Len(path))

\* the stored preference as the page reads it
SavedLang == storageGet(storageOk, item)

HasSupportedSaved == SavedLang # <<>> /\ SavedLang[1] \in SupportedSet

\* detectLanguage() is the operation that ran last (on construction or again)
JustDetected == lastOp.op \in {"construct", "detectLanguage"}

\* changeLanguage(t) is the operation that ran last
JustChanged(t) == lastOp.op = "changeLanguage" /\ lastOp.arg = t

\* the lower-cased locale tag of the browser
LocaleTag == toLowerCase(navigator.language)

\* positions of the supported codes that are a prefix of tag, or that start
\* with the part of tag before its first '-'
PrefixMatches(tag) ==
    {i \in 1..Len(supportedLanguages) :
        \/ startsWith(tag, supportedLanguages[i])
        \/ startsWith(supportedLanguages[i], splitFirst(tag, Dash))}

\* the code the locale signal stands for: the tag itself, else the first
\* prefix match in enumeration order, else the fallback
LocaleChoice(tag) ==
    IF tag \in SupportedSet THEN tag
    ELSE IF PrefixMatches(tag) # {}
         THEN supportedLanguages[CHOOSE i \in PrefixMatches(tag) :
                                    \A k \in PrefixMatches(tag) : i <= k]
         ELSE en

LocaleSupplies(tag) == tag \in SupportedSet \/ PrefixMatches(tag) # {}

\* the path of the URL a pending navigation goes to
NavPath == parseHref(nav[1]).pathname

-----------------------------------------------------------------------------
(* Detection.                                                              *)

\* C1: a supported code as the first path segment is the current language,
\* whatever the stored preference and the browser locale are.
C1_PathOverrides ==
    \A c \in SupportedSet : FirstSegIs(pathname, c) => currentLanguage = c

\* C1 witness: detection ran at /fr... with another supported code stored
\* and a browser locale that stands for a third.
C1_Witness ==
    /\ JustDetected
    /\ FirstSegIs(pathname, fr)
    /\ SavedLang = <<de>>
    /\ LocaleChoice(LocaleTag) = ptbr
    /\ currentLanguage = fr

\* C2: at a non-root path whose first segment is not a supported code, a
\* supported stored preference becomes the current language.
C2_StoredPreferenceUsed ==
    (/\ JustDetected
     /\ ~IsRoot(pathname)
     /\ ~HasSupportedFirstSeg(pathname)
     /\ HasSupportedSaved)
    => currentLanguage = SavedLang[1]

\* C3: at a path whose first segment is not a supported code and without a
\* supported stored preference, the current language is the one the
\* lower-cased browser locale stands for.
C3_LocaleUsed ==
    (/\ JustDetected
     /\ ~IsRoot(pathname)
     /\ ~HasSupportedFirstSeg(pathname)
     /\ ~HasSupportedSaved)
    => currentLanguage = LocaleChoice(LocaleTag)

\* C4: the current language is always a supported code, and it is the
\* fallback right after a detection in which neither the path, the stored
\* preference nor the browser locale supplies a supported code.
C4_AlwaysSupported ==
    /\ currentLanguage \in SupportedSet
    /\ (/\ JustDetected
        /\ ~HasSupportedFirstSeg(pathname)
        /\ ~HasSupportedSaved
        /\ ~LocaleSupplies(LocaleTag))
       => currentLanguage = fallbackLanguage

\* C4 witness: detection at /docs with the unsupported code xx stored and a
\* locale (it) that matches nothing.
C4_Witness ==
    /\ JustDetected
    /\ pathname = <<Slash>> \o docs
    /\ SavedLang = <<xx>>
    /\ ~LocaleSupplies(LocaleTag)
    /\ currentLanguage = en

-----------------------------------------------------------------------------
(* Switching.                                                              *)

\* C8: changeLanguage(T) for a supported non-default T other than the
\* current language stores T and navigates to /T followed by the current
\* path, without its first segment only when that segment is a language
\* code (for a path that is just /code both /T and /T/ are accepted).
C8_PrefixReplaced ==
    \A t \in SupportedSet \ {en} :
        (JustChanged(t) /\ t # currentLanguage)
        => /\ storageOk => item = <<JSONstringify(t)>>
           /\ nav # <<>>
           /\ LET rest == IF HasSupportedFirstSeg(pathname)
                          THEN AfterFirstSeg(pathname)
                          ELSE pathname
              IN  \/ NavPath = <<Slash>> \o t \o rest
                  \/ rest = <<>> /\ NavPath = <<Slash>> \o t \o <<Slash>>

\* C9: changeLanguage('en') on a page whose path starts with its non-default
\* current code C navigates to the rest of the path, and to the root from
\* /C and /C/.
C9_DefaultHasNoPrefix ==
    \A c \in SupportedSet \ {en} :
        (JustChanged(en) /\ currentLanguage = c /\ FirstSegIs(pathname, c))
        => /\ nav # <<>>
           /\ NavPath = IF AfterFirstSeg(pathname) \in {<<>>, <<Slash>>}
                        THEN <<Slash>>
                        ELSE AfterFirstSeg(pathname)

\* C10: the URL a navigation goes to has the query string and the fragment
\* of the current location.
C10_QueryAndFragmentKept ==
    nav # <<>> =>
        /\ parseHref(nav[1]).search = search
        /\ parseHref(nav[1]).hash = hash

\* C10 witness: changeLanguage navigated from a location that has both a
\* query string and a fragment.
C10_Witness ==
    /\ lastOp.op = "changeLanguage"
    /\ nav # <<>>
    /\ search = <<"?", "q">>
    /\ hash = <<"#", "h">>
    /\ parseHref(nav[1]).pathname # pathname

-----------------------------------------------------------------------------
(* Loading.                                                                *)

\* the fetches of code an invocation has issued, the pending one included
FetchesBy(r, code) ==
    Cardinality({m \in 1..Len(r.fetched) : r.fetched[m].code = code})
    + (IF r.st = "fetch" /\ r.cur = code THEN 1 ELSE 0)

RECURSIVE FetchesUpTo(_, _)
FetchesUpTo(k, code) ==
    IF k = 0 THEN 0 ELSE FetchesUpTo(k - 1, code) + FetchesBy(calls[k], code)

\* the fetches of code issued on this page
FetchesOf(code) == FetchesUpTo(Len(calls), code)

\* invocation i asked for its code, fetched it, and that fetch succeeded
FetchedOwnCode(i) ==
    calls[i].fetched = <<[code |-> calls[i].code, ok |-> TRUE]>>

\* invocation j asked for the same code after invocation i had returned with
\* its fetch of that code successful, and no third invocation fetches it
CalledAgain(i, j) ==
    /\ i # j
    /\ calls[j].code = calls[i].code
    /\ FetchedOwnCode(i)
    /\ i \in calls[j].after
    /\ \A k \in (1..Len(calls)) \ {i, j} : FetchesBy(calls[k], calls[i].code) = 0

\* C5: when loadLanguage(code) is called again after a call whose fetch of
\* code succeeded (the two calls being the only ones that fetch code), the
\* second call issues no fetch, so one fetch of code is issued in total, and
\* it returns the very dictionary the first call put in the cache.
C5_SecondCallFromCache ==
    \A i, j \in 1..Len(calls) :
        CalledAgain(i, j)
        => /\ calls[j].n = 0
           /\ calls[j].st = "done"
           /\ calls[j].result = calls[i].result
           /\ calls[j].result = translations[calls[i].code]
           /\ FetchesOf(calls[i].code) = 1

\* C5 witness: a second call for fr returned from the cache after the first
\* call had fetched fr.
C5_Witness ==
    \E i, j \in 1..Len(calls) :
        /\ CalledAgain(i, j)
        /\ calls[i].code = fr
        /\ calls[j].hits = <<fr>>
        /\ calls[j].result = <<[id |-> <<i, 1>>, map |-> Body(fr)]>>

\* a dictionary some successful fetch of the fallback language produced
IsFallbackDictionary(d) ==
    \E k \in 1..Len(calls) : \E m \in 1..Len(calls[k].fetched) :
        /\ calls[k].fetched[m] = [code |-> fallbackLanguage, ok |-> TRUE]
        /\ d = [id |-> <<k, m>>, map |-> Body(fallbackLanguage)]

\* what a returned invocation whose fetch of its own code failed returns
FailureResultRight(r) ==
    IF r.code # fallbackLanguage
    THEN \/ /\ Len(r.fetched) = 1
            /\ r.hits = <<fallbackLanguage>>
            /\ IsFallbackDictionary(r.result[1])
         \/ /\ Len(r.fetched) = 2
            /\ r.fetched[2].code = fallbackLanguage
            /\ r.result = IF r.fetched[2].ok
                          THEN <<[id |-> <<r.id, 2>>, map |-> Body(fallbackLanguage)]>>
                          ELSE <<EmptyDict>>
    ELSE Len(r.fetched) = 1 /\ r.result = <<EmptyDict>>

\* C6: no invocation of loadLanguage ends by throwing; one whose fetch of
\* its code failed returns what loadLanguage(fallbackLanguage) returns when
\* the code is not the fallback, and the empty dictionary when the fallback's
\* fetch failed too or the code is the fallback.
C6_NeverRaises ==
    \A i \in 1..Len(calls) :
        LET r == calls[i] IN
        /\ r.st \in {"fetch", "done"}
        /\ (r.st = "done" /\ r.fetched # <<>> /\ ~r.fetched[1].ok)
           => FailureResultRight(r)

\* C6 witness: loadLanguage(fr) returned the empty dictionary after the
\* fetches of fr and of the fallback both failed.
C6_Witness ==
    \E i \in 1..Len(calls) :
        /\ calls[i].code = fr
        /\ calls[i].st = "done"
        /\ calls[i].fetched = <<[code |-> fr, ok |-> FALSE], [code |-> en, ok |-> FALSE]>>
        /\ calls[i].result = <<EmptyDict>>

\* the fetches of code outstanding on this page
Outstanding(code) ==
    Cardinality({i \in 1..Len(calls) : calls[i].st = "fetch" /\ calls[i].cur = code})

\* a fetch of code by invocation i has succeeded
HasFetched(i, code) ==
    \E m \in 1..Len(calls[i].fetched) : calls[i].fetched[m] = [code |-> code, ok |-> TRUE]

\* C15 as stated: at most one fetch of a code is outstanding at any moment,
\* and no step replaces a cache entry that has been written.
C15_SingleFlight ==
    [][/\ \A c \in Codes : Outstanding(c)' <= 1
       /\ \A c \in Codes : translations[c] # <<>> => translations'[c] = translations[c]]_vars

\* C15 amended: an invocation issues at most one fetch of a code, and none
\* of a code that an invocation which had returned before it started has
\* fetched; overlapping invocations are held apart by nothing else.
C15_OneFetchEachUnlessCached ==
    \A j \in 1..Len(calls) : \A c \in Codes :
        /\ FetchesBy(calls[j], c) <= 1
        /\ (\E i \in calls[j].after : HasFetched(i, c)) => FetchesBy(calls[j], c) = 0

\* C15 witness: two overlapping invocations for fr have each fetched fr, and
\* the result of the one that ended last has replaced the other's in the cache.
C15_Witness ==
    /\ Len(calls) = 2
    /\ calls[1].code = fr /\ calls[2].code = fr
    /\ calls[2].after = {}
    /\ FetchedOwnCode(1) /\ FetchedOwnCode(2)
    /\ FetchesOf(fr) = 2
    /\ calls[2].result = <<[id |-> <<2, 1>>, map |-> Body(fr)]>>
    /\ translations[fr] = <<[id |-> <<1, 1>>, map |-> Body(fr)]>>

\* C16: an invocation of loadLanguage issues at most two fetches, the first
\* of its code and the second, after the first failed, of the fallback
\* language; one called with the fallback language issues at most one; and
\* it has returned exactly when the fetches it issued have ended.
C16_AtMostTwoFetches ==
    \A i \in 1..Len(calls) :
        LET r == calls[i] IN
        /\ r.n <= 2
        /\ r.n = Len(r.fetched) + (IF r.st = "fetch" THEN 1 ELSE 0)
        /\ r.st \in {"fetch", "done"}
        /\ (r.st = "done") = (Len(r.fetched) = r.n)
        /\ (r.st = "done") = (r.result # <<>>)
        /\ (r.code = fallbackLanguage => r.n <= 1)
        /\ (Len(r.fetched) >= 1 => r.fetched[1].code = r.code)
        /\ (r.n = 2 => /\ ~r.fetched[1].ok
                        /\ IF r.st = "fetch" THEN r.cur = fallbackLanguage
                           ELSE r.fetched[2].code = fallbackLanguage)

\* C16 witness: loadLanguage(en) has returned after its one fetch failed, and
\* another invocation has returned after two fetches.
C16_Witness ==
    \E i, j \in 1..Len(calls) :
        /\ calls[i].code = en /\ calls[i].st = "done" /\ calls[i].n = 1
        /\ ~calls[i].fetched[1].ok
        /\ calls[i].result = <<EmptyDict>>
        /\ calls[j].code = fr /\ calls[j].st = "done" /\ calls[j].n = 2

\* invocation i asked for code, and its fetch of code failed
FailedOwnCode(i, code) ==
    /\ calls[i].code = code
    /\ Len(calls[i].fetched) >= 1
    /\ calls[i].fetched[1] = [code |-> code, ok |-> FALSE]

\* C20: a cache entry for a code is the dictionary of a successful fetch of
\* exactly that code, never the fallback's dictionary and never the empty
\* one; so while no fetch of code has succeeded there is no entry for code,
\* and an invocation for code that starts after one whose fetch of code
\* failed issues a fetch of code again.
C20_FailedLoadNotCached ==
    /\ \A c \in Codes :
          translations[c] # <<>>
          => \E k \in 1..Len(calls) : \E m \in 1..Len(calls[k].fetched) :
                /\ calls[k].fetched[m] = [code |-> c, ok |-> TRUE]
                /\ translations[c] = <<[id |-> <<k, m>>, map |-> Body(c)]>>
    /\ \A i, j \in 1..Len(calls) : \A c \in Codes :
          (/\ FailedOwnCode(i, c)
           /\ i \in calls[j].after
           /\ calls[j].code = c
           /\ \A k \in calls[j].after : ~HasFetched(k, c))
          => /\ calls[j].hits = <<>> \/ Head(calls[j].hits) # c
             /\ FetchesBy(calls[j], c) = 1

\* C20 witness: loadLanguage(fr) fell back to the fallback dictionary, which
\* is cached under en only, and a later loadLanguage(fr) is fetching fr.
C20_Witness ==
    \E i, j \in 1..Len(calls) :
        /\ calls[i].fetched = <<[code |-> fr, ok |-> FALSE], [code |-> en, ok |-> TRUE]>>
        /\ calls[i].st = "done"
        /\ i \in calls[j].after
        /\ calls[j].code = fr
        /\ calls[j].st = "fetch" /\ calls[j].cur = fr
        /\ translations[fr] = <<>>
        /\ translations[en] = calls[i].result

-----------------------------------------------------------------------------
(* The texts written and returned.                                         *)

\* the dictionary cached for code has an entry for key k
Contains(code, k) ==
    translations[code] # <<>> /\ k \in DOMAIN translations[code][1].map

ValueIn(code, k) == translations[code][1].map[k]

\* the dictionary cached for code has a non-empty string for key k
HasText(code, k) == Contains(code, k) /\ ValueIn(code, k) # <<>>

\* the attribute of element e that carries its translation
TextOf(e) ==
    IF Page[e].tagName \in {"INPUT", "TEXTAREA"}
    THEN IF Page[e].type \in {"submit", "button"}
         THEN dom.els[e].value ELSE dom.els[e].placeholder
    ELSE IF Page[e].aria THEN dom.els[e].ariaLabel ELSE dom.els[e].textContent

\* current value if the key is there, else the fallback's, else the key
ContainedText(k) ==
    IF Contains(currentLanguage, k) THEN ValueIn(currentLanguage, k)
    ELSE IF Contains(fallbackLanguage, k) THEN ValueIn(fallbackLanguage, k)
    ELSE <<k>>

\* current value if it is a non-empty string, else the fallback's if that is
\* one, else the key
ResolvedText(k) ==
    IF HasText(currentLanguage, k) THEN ValueIn(currentLanguage, k)
    ELSE IF HasText(fallbackLanguage, k) THEN ValueIn(fallbackLanguage, k)
    ELSE <<k>>

JustApplied == lastOp.op = "applyTranslations"

\* C11 as stated: after applyTranslations() every tagged element shows the
\* current dictionary's value for its key when that dictionary contains the
\* key, otherwise the fallback's when it contains the key, otherwise the key;
\* and the text is not blank.
C11_ContainedValueWritten ==
    JustApplied =>
        \A e \in DOMAIN dom.els :
            TextOf(e) = ContainedText(Page[e].key) /\ TextOf(e) # <<>>

\* C11 amended: after applyTranslations() every tagged element shows the
\* current dictionary's value for its key when that value is a non-empty
\* string, otherwise the fallback's when that is a non-empty string, otherwise
\* the key; and the text is not blank.
C11_NonEmptyValueWritten ==
    JustApplied =>
        \A e \in DOMAIN dom.els :
            TextOf(e) = ResolvedText(Page[e].key) /\ TextOf(e) # <<>>

\* C11 witness: applyTranslations ran on a French page whose dictionary has
\* the empty string for search_hint and for nav_label, with the fallback
\* cached: the field shows the fallback's hint and the menu shows its key.
C11_Witness ==
    /\ JustApplied
    /\ currentLanguage = fr
    /\ Contains(fr, "search_hint") /\ ValueIn(fr, "search_hint") = <<>>
    /\ Contains(fr, "nav_label") /\ ~Contains(en, "nav_label")
    /\ TextOf("field") = <<"Search">>
    /\ TextOf("menu") = <<"nav_label">>
    /\ TextOf("heading") = <<"Bonjour">>

\* s with every piece that is the placeholder of name replaced by value
RECURSIVE FilledWith(_, _, _)
FilledWith(s, name, value) ==
    IF s = <<>> THEN <<>>
    ELSE (IF Head(s) = "{{" \o name \o "}}" THEN value ELSE <<Head(s)>>)
         \o FilledWith(Tail(s), name, value)

\* s with the placeholders of every parameter of ps replaced
RECURSIVE Filled(_, _)
Filled(s, ps) ==
    IF ps = <<>> THEN s
    ELSE Filled(FilledWith(s, Head(ps).name, Head(ps).value), Tail(ps))

\* C12 as stated: a t(key, params) step returns the resolved translation with
\* the placeholder {{p}} replaced by params[p] for each p of params, returns
\* the key itself when neither dictionary has the key, and leaves the
\* dictionary cache and the current language as they were.
C12_PlaceholdersReplaced ==
    [][lastOp'.op = "t"
       => /\ lastOp'.arg.result = Filled(ResolvedText(lastOp'.arg.key), lastOp'.arg.params)
          /\ (~Contains(currentLanguage, lastOp'.arg.key)
               /\ ~Contains(fallbackLanguage, lastOp'.arg.key)
                  => lastOp'.arg.result = <<lastOp'.arg.key>>)
          /\ translations' = translations
          /\ currentLanguage' = currentLanguage]_vars

\* C14: an applyTranslations() step that follows an applyTranslations() step
\* leaves the document as it is (the cache and the current language cannot
\* have changed in between).
C14_SecondApplyChangesNothing ==
    [][(lastOp.op = "applyTranslations" /\ lastOp'.op = "applyTranslations")
       => dom' = dom]_vars

\* C14 witness: applyTranslations() has run twice in a row on a page whose
\* dictionary is cached, and the texts are the translations.
C14_Witness ==
    /\ JustApplied /\ lastOp.arg = <<"again">>
    /\ translations[currentLanguage] # <<>>
    /\ TextOf("heading") = ResolvedText("hello")
    /\ TextOf("heading") # Html
    /\ dom.title # Html

-----------------------------------------------------------------------------
(* The order of init().                                                    *)

\* invocation i of loadLanguage has returned: every fetch it issued has
\* ended, and every dictionary it fetched is in the cache
Settled(i) ==
    /\ calls[i].st = "done"
    /\ Len(calls[i].fetched) = calls[i].n
    /\ \A k \in 1..Len(calls[i].fetched) :
          calls[i].fetched[k].ok => translations[calls[i].fetched[k].code] # <<>>

\* C13: once the applyTranslations() that init() schedules has run, the
\* loadLanguage(currentLanguage) invocation init() started has settled, its
\* fallback retry and its cache write included.
C13_AppliedAfterLoadSettled ==
    (initPc = "done" \/ (JustApplied /\ lastOp.arg = <<"timer">>)) => Settled(1)

\* C13 witness: the scheduled applyTranslations() has just run on a page
\* whose first load failed and fell back to the fallback language.
C13_Witness ==
    /\ JustApplied /\ lastOp.arg = <<"timer">>
    /\ initPc = "done"
    /\ calls[1].code = fr
    /\ calls[1].n = 2
    /\ ~calls[1].fetched[1].ok /\ calls[1].fetched[2].ok
    /\ translations[en] # <<>>
    /\ dom.els["heading"].textContent = <<"Hello">>

-----------------------------------------------------------------------------
(* Switching and detection together.                                       *)

\* C17: when changeLanguage(T), T supported and not the current language,
\* has stored T and set the location, the page that loads at the new location
\* detects T as its current language.
C17_RoundTrip ==
    [][(/\ lastOp.op = "changeLanguage"
        /\ lastOp.arg \in SupportedSet
        /\ lastOp.arg # currentLanguage
        /\ storageOk
        /\ nav # <<>>
        /\ lastOp'.op = "construct")
       => currentLanguage' = lastOp.arg]_vars

-----------------------------------------------------------------------------
(* The controls and the initial load.                                      *)

\* the loadLanguage(currentLanguage) of init() has not returned yet
LoadPending == calls[1].st = "fetch"

\* nothing of what init() does after its await shows in the document
Untouched(d) ==
    /\ d.listeners = {}
    /\ d.toggle = <<>> /\ d.active = <<>>
    /\ d.els = DomOf(d.page).els
    /\ d.title = Html
    /\ d.display = "none"

\* C21: while the initial load is pending no listener is registered and
\* applyTranslations has not run (so it stays that way if the fetch never
\* ends); a click on a language button or on the toggle, or Alt+L, in that
\* time writes no preference, starts no navigation and leaves the document as
\* it is; and once the buttons carry their listener, a click on the button
\* of a supported language other than the current one starts a navigation.
C21_ControlsAfterInitialLoad ==
    [][/\ (LoadPending => Untouched(dom) /\ initPc = "load")
       /\ (LoadPending' => Untouched(dom') /\ initPc' = "load")
       /\ (LoadPending /\ lastOp'.op \in {"click", "open"})
           => item' = item /\ nav' = nav /\ dom' = dom
       /\ (/\ lastOp'.op = "click"
           /\ "languageButtons" \in dom.listeners
           /\ lastOp'.arg \in SupportedSet
           /\ lastOp'.arg # currentLanguage)
           => nav' # <<>> /\ ~LoadPending]_vars

\* C21 witness: the button of de was clicked while the fetch of the initial
\* load was pending, on a page that has the buttons: nothing is stored, no
\* navigation is pending, no listener is registered.
C21_Witness ==
    /\ lastOp.op = "click" /\ lastOp.arg = de
    /\ LoadPending
    /\ calls[1].n = 2
    /\ "languageButtons" \in dom.page.has
    /\ dom.listeners = {}
    /\ item = <<>> /\ nav = <<>>

-----------------------------------------------------------------------------
(* Missing parts of the page.                                              *)

\* C18: none of the operations that look up parts of the page raises,
\* whichever parts the page lacks and however many focusable elements its
\* modal holds: setupEventListeners and updateLanguageUI (run when init()
\* resumes), showLanguageModal with its focus trap, hideLanguageModal,
\* applyTranslations with updateMetaTags.
C18_NoOperationRaises ==
    lastOp.op \in {"fetchSettles", "showLanguageModal", "hideLanguageModal",
                   "applyTranslations"}
        => ~lastOp.raised

-----------------------------------------------------------------------------
(* Storage that fails.                                                     *)

\* C19: while the storage fails, a read yields no stored preference, so
\* detection gives the path's code or, the stored signal aside, what it gives
\* with nothing stored; and changeLanguage(T), T supported and not the
\* current language, raises nothing and sets the location: to a path under
\* /T for T other than the default, with the query string and the fragment
\* kept, the stored item left as it was.
C19_StorageFailureNotFatal ==
    ~storageOk =>
        /\ SavedLang = <<>>
        /\ JustDetected =>
              currentLanguage = detectLanguage(pathname, <<>>, navigator)
        /\ \A t \in SupportedSet :
              (JustChanged(t) /\ t # currentLanguage)
              => /\ ~lastOp.raised
                 /\ nav # <<>>
                 /\ (t # en => FirstSegIs(NavPath, t))
                 /\ parseHref(nav[1]).search = search
                 /\ parseHref(nav[1]).hash = hash

\* C19 witness: with the storage failing and an item "fr" in it that cannot
\* be read, changeLanguage('de') on /docs has set the location to /de/docs
\* and the item is as it was.
C19_Witness ==
    /\ ~storageOk
    /\ item = <<JSONstringify(fr)>>
    /\ pathname = <<Slash>> \o docs
    /\ currentLanguage = en
    /\ JustChanged(de)
    /\ nav # <<>>
    /\ NavPath = <<Slash>> \o de \o <<Slash>> \o docs

-----------------------------------------------------------------------------
(* Rejected and idle switches.                                             *)

\* C7: a changeLanguage(T) step with T unsupported or T the current language
\* leaves the stored preference, the location, the pending navigation, the
\* current language and the dictionary cache as they were.
C7_NoOpLeavesState ==
    [][(/\ lastOp'.op = "changeLanguage"
        /\ (~includes(lastOp'.arg) \/ lastOp'.arg = currentLanguage))
       => /\ item' = item
          /\ nav' = nav
          /\ pathname' = pathname /\ search' = search /\ hash' = hash
          /\ currentLanguage' = currentLanguage
          /\ translations' = translations]_vars

\* C7 witness: changeLanguage was called with the current language on a page
\* that has a cached dictionary, and no navigation is pending.
C7_Witness ==
    /\ JustChanged(currentLanguage)
    /\ translations[currentLanguage] # <<>>
    /\ nav = <<>>

\* a second C7 case: changeLanguage was called with the unsupported code xx
C7_WitnessUnsupported ==
    /\ JustChanged(xx)
    /\ nav = <<>>
    /\ item = <<>>

====
